---- MODULE Spec2Model ----
(***************************************************************************)
(* State-machine model of satellite_monitor.py: the element-set fetch, the *)
(* trajectory sampler propagate_positions, the module-level loading and    *)
(* collision-analysis loops, the figure construction and the update_info   *)
(* callback.                                                               *)
(*                                                                         *)
(* Numbers.  Distances are kept exact: every modelled orbit lies on the    *)
(* line through (3,4,0), so every separation is a whole number of km and   *)
(* the Euclidean norm is an exact integer square root.  A float NaN is the *)
(* distinguished value NaN.  A datetime is a record of whole seconds and   *)
(* microseconds.                                                           *)
(***************************************************************************)
EXTENDS Integers, Sequences, FiniteSets, TLC

\* ------------------------------------------------------------- bounds
MaxSats == 3          \* longest NORAD_IDS list explored
MaxHours == 1         \* longest analysis window explored, in hours
NormBound == 256      \* search range of the integer square root

\* ------------------------------------------------- program constants
COLLISION_THRESHOLD_KM == 50
SecondsPerHour == 3600
SecondsPerMinute == 60
MicrosPerSecond == 1000000
NaN == -1000000
Inf == 1000000

\* Catalogue numbers the configuration list is drawn from, and the object
\* name the element-set service answers for each of them.
CATALOG == <<25544, 58215, 20580, 43013, 48274>>
CATALOG_NAMES == <<"ISS (ZARYA)", "STARLINK-30783", "HST", "NOAA 20", "STARLINK-2591">>

NameOf(nid) == CATALOG_NAMES[CHOOSE k \in 1..Len(CATALOG) : CATALOG[k] = nid]

\* Step sizes (seconds) the configuration may hold.
StepChoices == {1200, 1800}

\* ------------------------------------------------------------ datetime
DateTime(s, u) == [sec |-> s, usec |-> u]

\* start_time + timedelta(seconds = n), n a whole number of seconds
AddSeconds(dt, n) == [sec |-> dt.sec + n, usec |-> dt.usec]

\* a - b as a normalised timedelta: 0 <= usec < 10^6
TimeDiff(a, b) ==
    IF a.usec >= b.usec
      THEN [sec |-> a.sec - b.sec, usec |-> a.usec - b.usec]
      ELSE [sec |-> a.sec - b.sec - 1, usec |-> a.usec - b.usec + MicrosPerSecond]

\* jday(year, month, day, hour, minute, second): only the whole second of
\* the datetime is handed over, its microsecond field is not.
Jday(dt) == [sec |-> dt.sec, usec |-> 0]

\* ----------------------------------------------------------- propagator
\* The element sets the service can answer with.  Each fixes an ephemeris:
\* the along-track coordinate at each ten-minute slot of the hour, -1 where
\* the propagator reports an error (decay, no convergence).
TLES == {"tle-a", "tle-b", "tle-c", "tle-d", "tle-e"}

Track(tle) ==
    CASE tle = "tle-a" -> <<0, 0, 0, 0, 0, 0>>
      [] tle = "tle-b" -> <<10, 9, 11, 9, 10, 12>>
      [] tle = "tle-c" -> <<-1, 1, -1, 1, 20, -1>>
      [] tle = "tle-d" -> <<-1, -1, -1, -1, -1, -1>>
      [] OTHER         -> <<5, -1, 7, -1, -1, 6>>

Slot(sec) == ((sec \div 600) % 6) + 1

\* Satrec.twoline2rv(line1, line2)
Twoline2rv(line1, line2) == line1

\* satellite.sgp4(jd, fr) -> (error, position, velocity): a pure function of
\* the element set and the instant; the object advances one along-track
\* unit in the second half of each second.
Sgp4(satellite, t) ==
    LET k == Track(satellite)[Slot(t.sec)]
        a == k + (IF 2 * t.usec >= MicrosPerSecond THEN 1 ELSE 0)
    IN  IF k < 0
          THEN [error |-> 1, position |-> <<NaN, NaN, NaN>>]
          ELSE [error |-> 0, position |-> <<3 * a, 4 * a, 0>>]

\* position if error == 0 else (nan, nan, nan)
SampleOf(r) == IF r.error = 0 THEN r.position ELSE <<NaN, NaN, NaN>>

\* int(x / y) for y # 0: Python's int() truncates toward zero
TruncDiv(x, y) ==
    LET ax == IF x < 0 THEN -x ELSE x
        ay == IF y < 0 THEN -y ELSE y
        q  == ax \div ay
    IN  IF (x < 0) = (y < 0) THEN q ELSE -q

\* range(n) as the sequence of its values
Range(n) == IF n > 0 THEN [k \in 1..n |-> k - 1] ELSE <<>>

\* propagate_positions(line1, line2, start_time, hours, step_sec).  The
\* outcome records the exception raised, if any, and the array returned.
PropagatePositions(line1, line2, start, hours, step_sec) ==
    LET satellite == Twoline2rv(line1, line2)
    IN  IF step_sec = 0
          THEN [raised |-> "ZeroDivisionError", positions |-> <<>>]
          ELSE LET num_steps == TruncDiv(hours * SecondsPerHour, step_sec)
                   steps == Range(num_steps)
               IN  [raised |-> "none",
                    positions |->
                      [k \in DOMAIN steps |->
                         SampleOf(Sgp4(satellite,
                                       Jday(AddSeconds(start, steps[k] * step_sec))))]]

\* ---------------------------------------------------------------- fetch
\* What requests.get can do for one catalogue number: fail, or answer with
\* a body of some number of lines.
Responses(nid) ==
    {[exc |-> TRUE, text |-> <<>>]}
      \cup {[exc |-> FALSE, text |-> <<NameOf(nid), "tle-a">>]}
      \cup {[exc |-> FALSE, text |-> <<NameOf(nid), tle, tle>>] : tle \in TLES}

None == <<>>

\* fetch_tle(norad_id), given the response of its single requests.get
FetchTle(response) ==
    IF response.exc THEN None
    ELSE IF Len(response.text) >= 3
      THEN <<response.text[1], response.text[2], response.text[3]>>
      ELSE None

\* ------------------------------------------------------------- distances
IsNaN(x) == x = NaN

\* elementwise s1 - s2 of two samples: NaN wherever either operand is NaN
Sub(a, b) == [c \in 1..3 |-> IF IsNaN(a[c]) \/ IsNaN(b[c]) THEN NaN ELSE a[c] - b[c]]

ISqrt(s) == CHOOSE r \in 0..NormBound : r * r <= s /\ s < (r + 1) * (r + 1)

\* Norm with an invalid row counted as distance 0
NormNaNAsZero(v) ==
    IF \E c \in 1..3 : IsNaN(v[c]) THEN 0
    ELSE ISqrt(v[1] * v[1] + v[2] * v[2] + v[3] * v[3])

\* np.linalg.norm of one row: NaN if any component is NaN
Norm(v) ==
    IF \E c \in 1..3 : IsNaN(v[c]) THEN NaN
    ELSE ISqrt(v[1] * v[1] + v[2] * v[2] + v[3] * v[3])

\* np.linalg.norm(p1 - p2, axis=1) for two arrays of the same shape
Distances(p1, p2) == [k \in 1..Len(p1) |-> Norm(Sub(p1[k], p2[k]))]

AllNaN(d) == \A k \in 1..Len(d) : IsNaN(d[k])

\* np.argmin: a left-to-right scan that moves only on a strictly smaller
\* value, so the first occurrence of the minimum is returned
RECURSIVE ArgMinFrom(_, _, _)
ArgMinFrom(d, k, best) ==
    IF k > Len(d) THEN best
    ELSE ArgMinFrom(d, k + 1, IF d[k] < d[best] THEN k ELSE best)

ReplaceNaN(d) == [k \in 1..Len(d) |-> IF IsNaN(d[k]) THEN Inf ELSE d[k]]

\* NanArgMin returning the last occurrence of the minimum
NanArgMinLast(d) ==
    LET r == ReplaceNaN(d)
        first == ArgMinFrom(r, 2, 1)
    IN  (CHOOSE k \in 1..Len(r) :
           r[k] = r[first] /\ \A m \in 1..Len(r) : r[m] = r[first] => m <= k) - 1

\* np.nanargmin(distances) for a slice that is not all-NaN; the result is
\* the 0-based index
NanArgMin(d) == ArgMinFrom(ReplaceNaN(d), 2, 1) - 1

\* ------------------------------------------------------------ classifier
\* IsAlert with the threshold itself counted as an alert
IsAlertInclusive(distance, threshold) == distance <= threshold

\* ev["distance"] < COLLISION_THRESHOLD_KM
IsAlert(distance, threshold) == distance < threshold

\* ----------------------------------------------------------------- state
VARIABLES
    pc,                 \* position of the script / server
    NORAD_IDS,          \* configuration: catalogue numbers
    TIME_WINDOW_HOURS,  \* configuration: window
    TIME_STEP_SECONDS,  \* configuration: step
    start_time,         \* datetime.utcnow() taken once at line 57
    n,                  \* how many entries of NORAD_IDS the loading loop has done
    fetch_log,          \* history: the response each fetch got
    sample_log,         \* history: the arguments of each propagate_positions call
    sats,               \* the ordered dict, as the sequence of its items
    i, j,               \* indices of the analysis loops
    closest_events,
    raised,             \* the exception that ended the script, or "none"
    fig_data,
    lines,              \* what update_info last returned
    call, ret           \* one call of propagate_positions on its own

vars == <<pc, NORAD_IDS, TIME_WINDOW_HOURS, TIME_STEP_SECONDS, start_time, n,
          fetch_log, sample_log, sats, i, j, closest_events, raised, fig_data,
          lines, call, ret>>

config == <<NORAD_IDS, TIME_WINDOW_HOURS, TIME_STEP_SECONDS, start_time>>

StartTimes == {DateTime(0, 750000), DateTime(600, 0)}
NowTimes == {DateTime(0, 0), DateTime(1200, 500000)}

NoCall == [line1 |-> "tle-a", line2 |-> "tle-a", start_time |-> DateTime(0, 0),
           hours |-> 1, step_sec |-> SecondsPerHour]
NoRet == [raised |-> "pending", positions |-> <<>>]

Init ==
    /\ pc = "load"
    /\ NORAD_IDS \in {SubSeq(CATALOG, 1, k) : k \in 0..MaxSats}
    /\ TIME_WINDOW_HOURS \in 1..MaxHours
    /\ TIME_STEP_SECONDS \in StepChoices
    /\ start_time \in StartTimes
    /\ n = 0
    /\ fetch_log = <<>>
    /\ sample_log = <<>>
    /\ sats = <<>>
    /\ i = 0
    /\ j = 0
    /\ closest_events = <<>>
    /\ raised = "none"
    /\ fig_data = <<>>
    /\ lines = <<>>
    /\ call = NoCall
    /\ ret = NoRet

\* SampleArgs with the clock read again for each object
SampleArgsOwnClock(tle, start, hours, step_sec, k) ==
    [line1 |-> tle[2], line2 |-> tle[3], start_time |-> AddSeconds(start, k),
     hours |-> hours, step_sec |-> step_sec]

\* the arguments line 64 passes for the k-th configured object
SampleArgs(tle, start, hours, step_sec, k) ==
    [line1 |-> tle[2], line2 |-> tle[3], start_time |-> start,
     hours |-> hours, step_sec |-> step_sec]

\* sats[nid] = {...}: a new key is appended, an existing one is overwritten
DictSet(d, nid, entry) ==
    IF \E k \in 1..Len(d) : d[k].nid = nid
      THEN [k \in 1..Len(d) |-> IF d[k].nid = nid THEN entry ELSE d[k]]
      ELSE Append(d, entry)

\* one iteration of `for nid in NORAD_IDS`
LoadSatellite ==
    /\ pc = "load"
    /\ n < Len(NORAD_IDS)
    /\ \E response \in Responses(NORAD_IDS[n + 1]) :
         LET nid == NORAD_IDS[n + 1]
             tle == FetchTle(response)
         IN  /\ fetch_log' = Append(fetch_log, [nid |-> nid, response |-> response])
             /\ IF tle # None
                  THEN LET a == SampleArgs(tle, start_time, TIME_WINDOW_HOURS,
                                           TIME_STEP_SECONDS, n)
                           r == PropagatePositions(a.line1, a.line2, a.start_time,
                                                   a.hours, a.step_sec)
                       IN  /\ sample_log' = Append(sample_log, [nid |-> nid, args |-> a])
                           /\ IF r.raised = "none"
                                THEN /\ sats' = DictSet(sats, nid,
                                                  [nid |-> nid, name |-> tle[1],
                                                   positions |-> r.positions])
                                     /\ UNCHANGED <<pc, raised>>
                                ELSE /\ pc' = "aborted"
                                     /\ raised' = r.raised
                                     /\ UNCHANGED sats
                  ELSE UNCHANGED <<sample_log, sats, pc, raised>>
    /\ n' = n + 1
    /\ UNCHANGED <<config, i, j, closest_events, fig_data, lines, call, ret>>

\* ids = list(sats.keys())
Ids(d) == [k \in 1..Len(d) |-> d[k].nid]

\* the first (i, j) the nested loops visit over m keys, if there is one
HasFirstPair(m) == m >= 2
FirstPair(m) == <<0, 1>>

\* whether the loops visit another pair after (a, b), and which
HasNextPair(a, b, m) == b + 1 < m \/ a + 2 < m
\* NextPair with the inner loop starting at i instead of i + 1
NextPairFromI(a, b, m) == IF b + 1 < m THEN <<a, b + 1>> ELSE <<a + 1, a + 1>>
NextPair(a, b, m) == IF b + 1 < m THEN <<a, b + 1>> ELSE <<a + 1, a + 2>>

\* lines 68-69, and entering the loops
StartAnalysis ==
    /\ pc = "load"
    /\ n = Len(NORAD_IDS)
    /\ closest_events' = <<>>
    /\ IF HasFirstPair(Len(Ids(sats)))
         THEN /\ pc' = "analyze"
              /\ i' = FirstPair(Len(Ids(sats)))[1]
              /\ j' = FirstPair(Len(Ids(sats)))[2]
         ELSE /\ pc' = "plot"
              /\ UNCHANGED <<i, j>>
    /\ UNCHANGED <<config, n, fetch_log, sample_log, sats, raised, fig_data,
                   lines, call, ret>>

\* TimeOfApproach from the whole second of start_time
TimeOfApproachWholeSecond(start, idx, step_sec) == AddSeconds(Jday(start), idx * step_sec)

\* start_time + timedelta(seconds=int(min_dist_idx) * TIME_STEP_SECONDS)
TimeOfApproach(start, idx, step_sec) == AddSeconds(start, idx * step_sec)

\* the body of the inner loop, lines 72-83, for two dict entries
ClosestEvent(s1, s2, start, step_sec) ==
    LET distances == Distances(s1.positions, s2.positions)
        min_dist_idx == NanArgMin(distances)
    IN  [s1 |-> s1.name, s2 |-> s2.name,
         distance |-> distances[min_dist_idx + 1],
         time_of_approach |-> TimeOfApproach(start, min_dist_idx, step_sec)]

\* one iteration of the inner loop; np.nanargmin raises ValueError on an
\* all-NaN slice and nothing catches it
AnalyzePair ==
    /\ pc = "analyze"
    /\ LET ids == Ids(sats)
           s1 == sats[i + 1]
           s2 == sats[j + 1]
       IN  IF AllNaN(Distances(s1.positions, s2.positions))
             THEN /\ pc' = "aborted"
                  /\ raised' = "ValueError"
                  /\ UNCHANGED <<i, j, closest_events>>
             ELSE /\ closest_events' =
                        Append(closest_events,
                               ClosestEvent(s1, s2, start_time, TIME_STEP_SECONDS))
                  /\ raised' = raised
                  /\ IF HasNextPair(i, j, Len(ids))
                       THEN /\ i' = NextPair(i, j, Len(ids))[1]
                            /\ j' = NextPair(i, j, Len(ids))[2]
                            /\ pc' = pc
                       ELSE /\ pc' = "plot"
                            /\ UNCHANGED <<i, j>>
    /\ UNCHANGED <<config, n, fetch_log, sample_log, sats, fig_data, lines, call, ret>>

colors == <<"cyan", "magenta", "yellow", "lime">>

\* lines 86-98: the Earth surface, one orbit trace per object, then one
\* marker per object at its first sample
FigData(d) ==
    <<[mode |-> "surface", name |-> "Earth", color |-> "none", points |-> <<>>]>>
      \o [k \in 1..Len(d) |->
            [mode |-> "lines", name |-> d[k].name,
             color |-> colors[((k - 1) % Len(colors)) + 1],
             points |-> d[k].positions]]
      \o [k \in 1..Len(d) |->
            [mode |-> "markers", name |-> d[k].name,
             color |-> colors[((k - 1) % Len(colors)) + 1],
             points |-> <<d[k].positions[1]>>]]

BuildFigure ==
    /\ pc = "plot"
    /\ fig_data' = FigData(sats)
    /\ pc' = "serve"
    /\ UNCHANGED <<config, n, fetch_log, sample_log, sats, i, j, closest_events,
                   raised, lines, call, ret>>

\* the countdown part of update_info for one event
Countdown(ev, now) ==
    LET time_left == TimeDiff(ev.time_of_approach, now)
    IN  [minutes_left |-> time_left.sec \div SecondsPerMinute,
         seconds_left |-> time_left.sec % SecondsPerMinute,
         passed |-> time_left.sec < 0 \/ (time_left.sec = 0 /\ time_left.usec = 0)]

\* the paragraph update_info appends for one event
InfoLine(ev, now) ==
    [category |-> IF IsAlert(ev.distance, COLLISION_THRESHOLD_KM) THEN "ALERT" ELSE "SAFE",
     s1 |-> ev.s1, s2 |-> ev.s2, distance |-> ev.distance,
     countdown |-> Countdown(ev, now)]

\* update_info(n), fired by the interval timer
UpdateInfo ==
    /\ pc = "serve"
    /\ \E now \in NowTimes :
         lines' = [k \in 1..Len(closest_events) |-> InfoLine(closest_events[k], now)]
    /\ UNCHANGED <<pc, config, n, fetch_log, sample_log, sats, i, j, closest_events,
                   raised, fig_data, call, ret>>

Next == LoadSatellite \/ StartAnalysis \/ AnalyzePair \/ BuildFigure \/ UpdateInfo

Spec == Init /\ [][Next]_vars

\* --------------------------------------- propagate_positions on its own
SamplerHours == (-1)..MaxHours
SamplerSteps == {-1800, 0, 1000, 7200} \cup StepChoices

SamplerInit ==
    /\ pc = "call"
    /\ call \in [line1 : TLES, line2 : TLES, start_time : StartTimes,
                 hours : SamplerHours, step_sec : SamplerSteps]
    /\ call.line2 = call.line1
    /\ ret = NoRet
    /\ NORAD_IDS = <<>>
    /\ TIME_WINDOW_HOURS = 1
    /\ TIME_STEP_SECONDS = SecondsPerHour
    /\ start_time = DateTime(0, 0)
    /\ n = 0
    /\ fetch_log = <<>>
    /\ sample_log = <<>>
    /\ sats = <<>>
    /\ i = 0
    /\ j = 0
    /\ closest_events = <<>>
    /\ raised = "none"
    /\ fig_data = <<>>
    /\ lines = <<>>

SamplerCall ==
    /\ pc = "call"
    /\ ret' = PropagatePositions(call.line1, call.line2, call.start_time,
                                 call.hours, call.step_sec)
    /\ pc' = "returned"
    /\ UNCHANGED <<config, n, fetch_log, sample_log, sats, i, j, closest_events,
                   raised, fig_data, lines, call>>

SamplerNext == SamplerCall

SamplerSpec == SamplerInit /\ [][SamplerNext]_vars

\* ================================================================ claims
\* helpers of the statements below
ValidSample(p) == \A c \in 1..3 : p[c] # NaN
SqDist(a, b) ==
    (a[1] - b[1]) * (a[1] - b[1]) + (a[2] - b[2]) * (a[2] - b[2])
      + (a[3] - b[3]) * (a[3] - b[3])
EntryOf(name) == sats[CHOOSE k \in 1..Len(sats) : sats[k].name = name]
\* indices (0-based) at which both trajectories of an event hold a valid sample
ValidIdx(ev) ==
    LET p1 == EntryOf(ev.s1).positions
        p2 == EntryOf(ev.s2).positions
    IN  {x \in 0..(Len(p1) - 1) : ValidSample(p1[x + 1]) /\ ValidSample(p2[x + 1])}
SqDistAt(ev, x) == SqDist(EntryOf(ev.s1).positions[x + 1], EntryOf(ev.s2).positions[x + 1])
\* the index an event reports, read back from its instant
IdxOf(ev) == (ev.time_of_approach.sec - start_time.sec) \div TIME_STEP_SECONDS
Events == {closest_events[k] : k \in 1..Len(closest_events)}
GridCount == (TIME_WINDOW_HOURS * SecondsPerHour) \div TIME_STEP_SECONDS
FetchFailed(e) == e.response.exc \/ Len(e.response.text) < 3
DtLess(a, b) == a.sec < b.sec \/ (a.sec = b.sec /\ a.usec < b.usec)
ArgsOf(nid) == (CHOOSE e \in {sample_log[k] : k \in 1..Len(sample_log)} : e.nid = nid).args

\* C1: for step_duration > 0 and window_duration >= step_duration the
\* sampler returns floor(window / step) samples and sample i is the
\* propagation at start_time + i * step_duration, invalid instants recorded
\* in place as the invalid marker.
C1_SampleAtGridInstant ==
    (pc = "returned" /\ call.step_sec > 0
       /\ call.hours * SecondsPerHour >= call.step_sec)
    => /\ ret.raised = "none"
       /\ Len(ret.positions) = (call.hours * SecondsPerHour) \div call.step_sec
       /\ \A x \in 0..(Len(ret.positions) - 1) :
            LET r == Sgp4(Twoline2rv(call.line1, call.line2),
                          AddSeconds(call.start_time, x * call.step_sec))
            IN  ret.positions[x + 1] =
                  (IF r.error = 0 THEN r.position ELSE <<NaN, NaN, NaN>>)

\* C2: a step or window <= 0 is rejected with a failure before any sample
\* is propagated; no trajectory, empty or not, is returned for it.
C2_InvalidParametersRejected ==
    (pc = "returned" /\ (call.step_sec <= 0 \/ call.hours <= 0))
    => ret.raised # "none"

\* C3: an index where either sample is invalid is left out of the minimum
\* search: when some index has both samples valid, the reported distance is
\* the smallest Euclidean distance over exactly the valid indices and the
\* reported index is one of them.
C3_InvalidIndicesExcluded ==
    \A ev \in Events :
      ValidIdx(ev) # {} =>
        /\ IdxOf(ev) \in ValidIdx(ev)
        /\ ev.distance >= 0
        /\ ev.distance * ev.distance = SqDistAt(ev, IdxOf(ev))
        /\ \A x \in ValidIdx(ev) : ev.distance * ev.distance <= SqDistAt(ev, x)

C3_Witness ==
    \E ev \in Events :
      /\ \E x \in 0..(GridCount - 1) : x \notin ValidIdx(ev) /\ x < IdxOf(ev)
      /\ IdxOf(ev) \in ValidIdx(ev)

\* C4: when the minimum distance occurs at several valid indices the event
\* reports the earliest: no smaller valid index has the reported distance.
C4_EarliestIndexOnTie ==
    \A ev \in Events :
      \A x \in ValidIdx(ev) :
        x < IdxOf(ev) => SqDistAt(ev, x) # ev.distance * ev.distance

C4_Witness ==
    \E ev \in Events :
      \E x \in ValidIdx(ev) :
        /\ x > IdxOf(ev)
        /\ SqDistAt(ev, x) = ev.distance * ev.distance
        /\ IdxOf(ev) \in ValidIdx(ev)

\* C5: a pair with no index at which both samples are valid gets an
\* indeterminate outcome of its own and the run goes on: the script is
\* never ended at such a pair.
C5_NoValidOverlapIsPairScoped ==
    (pc = "aborted" /\ j < Len(sats))
    => \E x \in 0..(GridCount - 1) :
         ValidSample(sats[i + 1].positions[x + 1])
           /\ ValidSample(sats[j + 1].positions[x + 1])

\* C6: every event is reported under exactly one of ALERT and SAFE, ALERT
\* exactly when its minimum distance is strictly below the threshold; a
\* distance equal to the threshold is SAFE.
C6_AlertIffStrictlyBelowThreshold ==
    /\ pc = "serve" /\ lines # <<>> => Len(lines) = Len(closest_events)
    /\ \A k \in 1..Len(lines) :
         /\ lines[k].distance = closest_events[k].distance
         /\ lines[k].category \in {"ALERT", "SAFE"}
         /\ lines[k].category = "ALERT" <=> lines[k].distance < COLLISION_THRESHOLD_KM
         /\ lines[k].distance >= COLLISION_THRESHOLD_KM => lines[k].category = "SAFE"

C6_Witness ==
    /\ \E k \in 1..Len(lines) :
         lines[k].distance = COLLISION_THRESHOLD_KM /\ lines[k].category = "SAFE"
    /\ \E k \in 1..Len(lines) :
         lines[k].distance < COLLISION_THRESHOLD_KM /\ lines[k].category = "ALERT"

\* C7: once the analysis loop has finished, the event list holds exactly one
\* event per unordered pair of distinct objects of the run, none pairing an
\* object with itself and no pair twice; fewer than two objects give none.
C7_OneEventPerUnorderedPair ==
    pc \in {"plot", "serve"} =>
      /\ 2 * Len(closest_events) = Len(sats) * (Len(sats) - 1)
      /\ \A k \in 1..Len(closest_events) : closest_events[k].s1 # closest_events[k].s2
      /\ \A a, b \in 1..Len(sats) :
           a < b =>
             Cardinality({k \in 1..Len(closest_events) :
                            {closest_events[k].s1, closest_events[k].s2}
                              = {sats[a].name, sats[b].name}}) = 1

C7_Witness == pc = "serve" /\ Len(sats) = 3 /\ Len(closest_events) = 3

\* C8: a failed fetch excludes exactly that object: it is fetched once, has
\* no trajectory and is in no event, and every object whose fetch succeeded
\* is still propagated and analysed against every other such object.
C8_FailedFetchExcludesOnlyThatObject ==
    (\E k \in 1..Len(fetch_log) : FetchFailed(fetch_log[k])) =>
      /\ \A k, m \in 1..Len(fetch_log) : fetch_log[k].nid = fetch_log[m].nid => k = m
      /\ \A k \in 1..Len(fetch_log) :
           IF FetchFailed(fetch_log[k])
             THEN /\ \A m \in 1..Len(sats) : sats[m].nid # fetch_log[k].nid
                  /\ \A ev \in Events : NameOf(fetch_log[k].nid) \notin {ev.s1, ev.s2}
             ELSE \E m \in 1..Len(sats) :
                    /\ sats[m].nid = fetch_log[k].nid
                    /\ Len(sats[m].positions) = GridCount
      /\ pc \in {"plot", "serve", "aborted"} =>
           \A a, b \in 1..Len(sats) :
             a < b => \E ev \in Events : {ev.s1, ev.s2} = {sats[a].name, sats[b].name}

\* C9: every two trajectories the analysis compares were sampled with the
\* same start time, the same step and the same sample count, so equal
\* indices denote equal instants.
C9_SharedGrid ==
    \A a, b \in 1..Len(sats) :
      /\ ArgsOf(sats[a].nid).start_time = ArgsOf(sats[b].nid).start_time
      /\ ArgsOf(sats[a].nid).step_sec = ArgsOf(sats[b].nid).step_sec
      /\ Len(sats[a].positions) = Len(sats[b].positions)
      /\ \A x \in 0..(Len(sats[a].positions) - 1) :
           AddSeconds(ArgsOf(sats[a].nid).start_time, x * ArgsOf(sats[a].nid).step_sec)
             = AddSeconds(ArgsOf(sats[b].nid).start_time, x * ArgsOf(sats[b].nid).step_sec)

C9_Witness ==
    /\ pc = "analyze"
    /\ Len(sats) = 3
    /\ closest_events # <<>>
    /\ \A a \in 1..Len(sats) : Len(sats[a].positions) = 3

\* C10: an event's instant is start_time + index * step_duration for the
\* reported index of minimum distance, with the start time and step the
\* trajectories were sampled with; it lies in [start_time, start_time +
\* count * step_duration).
C10_InstantOfEvent ==
    \A ev \in Events :
      LET idx == NanArgMin(Distances(EntryOf(ev.s1).positions, EntryOf(ev.s2).positions))
          a == ArgsOf(EntryOf(ev.s1).nid)
      IN  /\ ev.time_of_approach = [sec |-> a.start_time.sec + idx * a.step_sec,
                                    usec |-> a.start_time.usec]
          /\ ~DtLess(ev.time_of_approach, a.start_time)
          /\ DtLess(ev.time_of_approach,
                    [sec |-> a.start_time.sec + Len(EntryOf(ev.s1).positions) * a.step_sec,
                     usec |-> a.start_time.usec])

C10_Witness ==
    \E ev \in Events :
      /\ start_time.usec # 0
      /\ DtLess(start_time, ev.time_of_approach)

====
